---- MODULE Spec2Model ----
(***************************************************************************)
(* Model of the wallet web service of src/src/main.rs and src/src/db.rs.   *)
(*                                                                         *)
(* Two state machines share the module:                                    *)
(*   Spec      the request handlers `home` (GET /) and `spend` (POST /)    *)
(*             running concurrently over the shared AppState (the wallet   *)
(*             behind an RwLock, the store behind an RwLock, the Esplora   *)
(*             client), main.rs lines 138-263;                             *)
(*   SpecBoot  the key bootstrap of `main` (main.rs lines 72-80) with the  *)
(*             two functions of db.rs, run by several processes against    *)
(*             one database.                                               *)
(*                                                                         *)
(* The handlers call into bdk_wallet, bdk_sqlx and the Esplora client.     *)
(* Those crates are not part of the repository; each call is modelled at   *)
(* its call site by the effect the call has on the wallet (revealed        *)
(* derivation indices, the transaction graph, the staged change set that   *)
(* persist_async writes out).                                              *)
(***************************************************************************)
EXTENDS Integers, Sequences, FiniteSets, TLC

(***************************************************************************)
(* Bounds of the model.                                                    *)
(***************************************************************************)
\* Requests served in one run; request ids are 1..MaxRequests in arrival order.
MaxRequests == 2
\* Payments an outside party makes to the wallet's receive addresses while it runs.
MaxDeposits == 1
\* Processes that run the key bootstrap of main against the same database.
MaxBoots == 3
\* Value of one such payment, in satoshi.
DepositValue == 3000
\* Virtual size of a built transaction: fee = fee rate * TxVsize.
TxVsize == 100

Reqs == 1..MaxRequests
Procs == 1..MaxBoots
None == "none"

VARIABLES
    pc,         \* pc[r]: where request r stands in its handler
    form,       \* form[r]: the SpendRequest form of a spend still to be validated
    intent,     \* intent[r]: the validated amount and fee of a spend
    sreq,       \* sreq[r]: the sync request built by home
    upd,        \* upd[r]: the update the Esplora sync returned to home
    psbt,       \* psbt[r]: the transaction built (and signed) by spend
    nextAddress,\* nextAddress[r]: index of the next_unused_address of home
    response,   \* the response sent last: the request and what its handler returned
    wallet,     \* state.wallet: the in-memory PersistedWallet
    db,         \* what the wallet store holds durably
    chain,      \* the transactions the Esplora server knows
    wReaders,   \* holders of a read guard of state.wallet
    wWriter,    \* the holder of the write guard of state.wallet, as a set
    sWriter,    \* the holder of the write guard of state.store, as a set
    log,        \* the spends that reached the change address, in the order they built
    applied,    \* every transaction some apply_update merged into the wallet
    lastFlushOk,\* whether the most recent persist_async returned Ok
    keys,       \* rows of table keys committed in the database
    kWriter,    \* the database transaction that holds the write lock, as a set
    bpc,        \* bpc[p]: where process p stands in the bootstrap of main
    btx,        \* btx[p]: the database transaction of p
    mnemonic,   \* mnemonic[p]: the phrase p holds
    vpc,        \* where the construction of the transaction list of home stands
    walletTx,   \* the wallet transaction handed to TxDetails::new
    details,    \* the TxDetails made of it
    txList,     \* txs of home, in the order wallet.transactions() yields them
    sortedList  \* txs of home after sort_by

reqVars == <<pc, form, intent, sreq, upd, psbt, nextAddress, response>>
sharedVars == <<wallet, db, chain, wReaders, wWriter, sWriter>>
ghostVars == <<log, applied, lastFlushOk>>
bootVars == <<keys, kWriter, bpc, btx, mnemonic>>
viewVars == <<vpc, walletTx, details, txList, sortedList>>
vars == <<reqVars, sharedVars, ghostVars, bootVars, viewVars>>

Max(a, b) == IF a >= b THEN a ELSE b

(***************************************************************************)
(* Form parsing: main.rs lines 230-236.                                    *)
(* A string is a sequence of one-character strings.  A parsed u64 is kept  *)
(* as its canonical decimal digits, so that the comparisons with u64::MAX  *)
(* are made on the digits.                                                 *)
(***************************************************************************)
Digits == {"0", "1", "2", "3", "4", "5", "6", "7", "8", "9"}

DigitVal(c) ==
    CASE c = "0" -> 0 [] c = "1" -> 1 [] c = "2" -> 2 [] c = "3" -> 3
      [] c = "4" -> 4 [] c = "5" -> 5 [] c = "6" -> 6 [] c = "7" -> 7
      [] c = "8" -> 8 [] c = "9" -> 9

RECURSIVE Canon(_)
\* decimal digits without leading zeros
Canon(d) == IF Len(d) > 1 /\ d[1] = "0" THEN Canon(Tail(d)) ELSE d

RECURSIVE LexLeq(_, _)
LexLeq(a, b) ==
    IF a = <<>> THEN TRUE
    ELSE IF DigitVal(a[1]) # DigitVal(b[1]) THEN DigitVal(a[1]) < DigitVal(b[1])
    ELSE LexLeq(Tail(a), Tail(b))

\* a <= b for canonical digit strings
DigitsLeq(a, b) == Len(a) < Len(b) \/ (Len(a) = Len(b) /\ LexLeq(a, b))

\* u64::MAX = 18446744073709551615
U64Max == <<"1","8","4","4","6","7","4","4","0","7","3","7","0","9","5","5","1","6","1","5">>
\* u64::MAX / 250 = 73786976294838206: the largest sat/vB that checked_mul accepts
MaxSatPerVb == <<"7","3","7","8","6","9","7","6","2","9","4","8","3","8","2","0","6">>

ParseErr == [ok |-> FALSE, val |-> <<>>]

\* A parser that takes every string for a number (for comparison with U64FromStr)
U64FromStrLenient(s) == [ok |-> TRUE, val |-> <<"0">>]

\* u64::from_str: an optional "+", then one or more digits, value <= u64::MAX
U64FromStr(s) ==
    LET d == IF Len(s) > 0 /\ s[1] = "+" THEN Tail(s) ELSE s
    IN  IF d = <<>> \/ (\E i \in 1..Len(d) : d[i] \notin Digits) THEN ParseErr
        ELSE IF DigitsLeq(Canon(d), U64Max) THEN [ok |-> TRUE, val |-> Canon(d)]
        ELSE ParseErr

RECURSIVE ToNat(_)
\* the number a canonical digit string denotes (used on values that fit TLC's integers)
ToNat(d) == IF d = <<>> THEN 0 ELSE 10 * ToNat(SubSeq(d, 1, Len(d) - 1)) + DigitVal(d[Len(d)])

\* FeeRate::from_sat_per_vb: None when sat_vb * 250 overflows u64
FeeRateFromSatPerVb(v) == DigitsLeq(v, MaxSatPerVb)

\* Address::from_str: the human-readable part up to the separator "1" names a network
AddressFromStr(a) ==
    \E i \in 1..Len(a) : a[i] = "1" /\ SubSeq(a, 1, i - 1) \in {<<"t","b">>, <<"b","c">>}

\* require_network(NETWORK) with NETWORK = Signet: signet addresses carry "tb"
RequireNetwork(a) == Len(a) >= 3 /\ SubSeq(a, 1, 3) = <<"t","b","1">>

\* PushBytesBuf::try_from: the bytes must number less than 2^32
PushBytesFits(len) == len \div 65536 < 65536

(***************************************************************************)
(* The forms a client may post.  amount, address and fee_rate are strings; *)
(* the note enters validation as its bytes, of which the length matters.   *)
(***************************************************************************)
GoodAmount == <<"1","0","0","0">>
GoodAddress == <<"t","b","1","p">>
GoodFee == <<"1">>
GoodForm == [amount |-> GoodAmount, address |-> GoodAddress, fee_rate |-> GoodFee, note |-> 5]

\* The forms of the runs that mix GET and POST: a payment that can be built, one
\* the wallet cannot fund, one below the dust limit, and one that does not parse
Forms ==
    {GoodForm}
    \cup {[GoodForm EXCEPT !.amount = a] :
            a \in {<<"a","b","c">>, <<"0">>, <<"7","0","0","0">>}}

\* The forms of the runs of POST alone: each field at and beyond what validation takes
AllForms ==
    Forms
    \cup {[GoodForm EXCEPT !.amount = a] : a \in {<<>>, <<"-","5">>, <<"+","9","0","0">>}}
    \cup {[GoodForm EXCEPT !.address = a] : a \in {<<"x","y","z">>, <<"b","c","1","p">>}}
    \cup {[GoodForm EXCEPT !.fee_rate = f] :
            f \in {<<"x">>, <<"0">>,
                   <<"7","3","7","8","6","9","7","6","2","9","4","8","3","8","2","0","7">>,
                   <<"1","8","4","4","6","7","4","4","0","7","3","7","0","9","5","5","1","6","1","6">>}}
    \cup {[GoodForm EXCEPT !.note = n] : n \in {0, 100}}

NoForm == [amount |-> <<>>, address |-> <<>>, fee_rate |-> <<>>, note |-> 0]
NoIntent == [amt |-> 0, fee |-> 0]

\* spend, lines 230-236: the validation of the form, in the order of the code.
\* "InputErr" is an Err returned through `?`; "Panic" is the expect/unwrap aborting the task.
Validate(f) ==
    LET amount == U64FromStr(f.amount)
        fee == U64FromStr(f.fee_rate)
    IN  IF ~amount.ok THEN [res |-> "InputErr", intent |-> NoIntent]
        ELSE IF ~AddressFromStr(f.address) THEN [res |-> "InputErr", intent |-> NoIntent]
        ELSE IF ~RequireNetwork(f.address) THEN [res |-> "InputErr", intent |-> NoIntent]
        ELSE IF ~fee.ok THEN [res |-> "InputErr", intent |-> NoIntent]
        ELSE IF ~FeeRateFromSatPerVb(fee.val) THEN [res |-> "Panic", intent |-> NoIntent]
        ELSE IF ~PushBytesFits(f.note) THEN [res |-> "Panic", intent |-> NoIntent]
        ELSE [res |-> "Ok",
              intent |-> [amt |-> ToNat(amount.val), fee |-> ToNat(fee.val) * TxVsize]]

(***************************************************************************)
(* Transactions and coins.  A deposit pays DepositValue to the receive     *)
(* address of index ext; a spend consumes the coins ins and pays its change*)
(* cval (when positive) to the change address of index chg.                *)
(***************************************************************************)
NoTx == [k |-> "none", n |-> 0, ext |-> -1, ins |-> {}, chg |-> -1, cval |-> 0]
DepTx(n, e) == [k |-> "dep", n |-> n, ext |-> e, ins |-> {}, chg |-> -1, cval |-> DepositValue]
SpendTx(ins, chg, cval) ==
    [k |-> "spend", n |-> 0, ext |-> -1, ins |-> ins,
     chg |-> IF cval > 0 THEN chg ELSE -1, cval |-> cval]

Outs(t) ==
    IF t.k = "dep" THEN {<<"d", t.n>>}
    ELSE IF t.k = "spend" /\ t.chg >= 0 THEN {<<"c", t.chg>>}
    ELSE {}
Coins(txs) == UNION {Outs(t) : t \in txs}
Spent(txs) == UNION {t.ins : t \in txs}
Unspent(txs) == Coins(txs) \ Spent(txs)
CoinValue(c, txs) == (CHOOSE t \in txs : c \in Outs(t)).cval

RECURSIVE SumValue(_, _)
SumValue(cs, txs) ==
    IF cs = {} THEN 0
    ELSE LET c == CHOOSE x \in cs : TRUE
         IN  CoinValue(c, txs) + SumValue(cs \ {c}, txs)

(***************************************************************************)
(* The wallet (bdk_wallet::PersistedWallet) as the handlers use it.        *)
(*   ext, int   last revealed derivation index of the External / Internal  *)
(*              keychain, -1 when none is revealed                         *)
(*   used       Internal indices marked used in memory (never persisted)   *)
(*   txs        the transaction graph                                      *)
(*   stage      the change set not yet written by persist_async            *)
(***************************************************************************)
NoStage == [ext |-> -1, int |-> -1, txs |-> {}]

\* what Wallet::load reads back from the store
Loaded(d) == [ext |-> d.ext, int |-> d.int, used |-> {}, txs |-> d.txs, stage |-> NoStage]

\* Internal indices that carry an output of a known transaction, or are marked used
UsedInternal(w) == w.used \cup {t.chg : t \in {x \in w.txs : x.chg >= 0}}
\* External indices that carry an output of a known transaction
UsedExternal(w) == {t.ext : t \in {x \in w.txs : x.ext >= 0}}

\* KeychainTxOutIndex::next_unused_spk: the lowest revealed unused index, else the next one
NextUnused(last, used) ==
    LET free == {i \in 0..last : i \notin used}
    IN  IF free # {} THEN CHOOSE i \in free : \A j \in free : i <= j ELSE last + 1

\* An update that replaces the graph instead of merging into it (for comparison
\* with ApplyUpdate)
ApplyUpdateOverwrite(w, u) == [w EXCEPT !.txs = u, !.stage.txs = u]

\* Wallet::apply_update: the update's transactions are merged into the graph and staged
ApplyUpdate(w, u) ==
    [w EXCEPT !.txs = @ \cup u, !.stage.txs = @ \cup (u \ w.txs)]

NoAddress == -1
\* Index of the address next_unused_address(External) returns
NextAddressIndex(w) == NextUnused(w.ext, UsedExternal(w))

\* Wallet::next_unused_address(External): reveals the next index when every revealed
\* one is used, and stages the reveal
NextUnusedAddress(w) ==
    LET idx == NextUnused(w.ext, UsedExternal(w))
    IN  [w EXCEPT !.ext = Max(@, idx),
                  !.stage.ext = IF idx > w.ext THEN Max(@, idx) ELSE @]

\* A wallet that does not remember the change addresses it handed out (for
\* comparison with MarkUsed)
MarkUsedForgotten(w, idx) == w

\* KeychainTxOutIndex::mark_used on the Internal keychain
MarkUsed(w, idx) == [w EXCEPT !.used = @ \cup {idx}]

\* TxBuilder::finish, the change address: the next unused Internal index is taken,
\* revealed if new (the reveal is staged) and marked used
RevealChange(w) ==
    LET idx == NextUnused(w.int, UsedInternal(w))
    IN  MarkUsed([w EXCEPT !.int = Max(@, idx),
                           !.stage.int = IF idx > w.int THEN Max(@, idx) ELSE @], idx)

ChangeIndex(w) == NextUnused(w.int, UsedInternal(w))

\* Coin selection: some of the wallet's unspent coins that cover the target, none of
\* them in excess (the selection stops as soon as the target is met)
CoinSelect(w, target) ==
    {sel \in SUBSET Unspent(w.txs) :
        /\ SumValue(sel, w.txs) >= target
        /\ \E c \in sel : SumValue(sel \ {c}, w.txs) < target}

\* tx_builder.finish(), lines 242-246: the outcomes of building the transaction.
\* A recipient below the dust limit is refused before anything else; the change
\* address is taken before the coins are selected.
BuildTx(w, it) ==
    IF it.amt = 0 THEN {[ok |-> FALSE, w |-> w, tx |-> NoTx]}
    ELSE LET w1 == RevealChange(w)
             sels == CoinSelect(w, it.amt + it.fee)
         IN  IF sels = {} THEN {[ok |-> FALSE, w |-> w1, tx |-> NoTx]}
             ELSE {[ok |-> TRUE, w |-> w1,
                    tx |-> SpendTx(sel, ChangeIndex(w),
                                   SumValue(sel, w.txs) - (it.amt + it.fee))] : sel \in sels}

\* persist_async: the staged change set is written to the store ...
PersistTo(d, w) ==
    [ext |-> Max(d.ext, w.stage.ext), int |-> Max(d.int, w.stage.int),
     txs |-> d.txs \cup w.stage.txs]
\* ... and taken out of the wallet
TakeStaged(w) == [w EXCEPT !.stage = NoStage]

(***************************************************************************)
(* The Esplora server.                                                     *)
(***************************************************************************)
NoSync == [ext |-> -1, int |-> -1]

\* start_sync_with_revealed_spks: the scripts revealed so far on both keychains
SyncRequest(w) == [ext |-> w.ext, int |-> w.int]

CoinWatched(c, rq, ch) ==
    IF c[1] = "c" THEN c[2] <= rq.int
    ELSE \E t \in ch : t.k = "dep" /\ t.n = c[2] /\ t.ext <= rq.ext

\* client.sync: the server's transactions that pay to or spend from a requested script
SyncResult(rq, ch) ==
    {t \in ch : \/ (t.ext >= 0 /\ t.ext <= rq.ext)
                \/ (t.chg >= 0 /\ t.chg <= rq.int)
                \/ \E c \in t.ins : CoinWatched(c, rq, ch)}

\* client.broadcast: the server takes a transaction whose inputs it holds unspent
Accepts(ch, t) == t.ins \subseteq Unspent(ch)

\* Payments made since the server started
NDeposits == Cardinality({t \in chain : t.k = "dep" /\ t.n > 0})

(***************************************************************************)
(* tokio::sync::RwLock.                                                    *)
(***************************************************************************)
\* A read guard that outlives its statement (for comparison with ReleaseRead)
ReleaseReadKept(readers, r) == readers
CanRead(writer) == writer = {}
CanWrite(readers, writer) == writer = {} /\ readers = {}
AcquireRead(readers, r) == readers \cup {r}
ReleaseRead(readers, r) == readers \ {r}

(***************************************************************************)
(* Initial state: the server has just bound its listener (main, line 131). *)
(* The wallet was created fresh (lines 107-115), or loaded (lines 92-104)  *)
(* from the store an earlier run left: two payments received on the first  *)
(* two receive addresses.                                                  *)
(***************************************************************************)
FreshStore == [ext |-> -1, int |-> -1, txs |-> {}]
EarlierDeposits == {DepTx(-1, 0), DepTx(0, 1)}
FundedStore == [ext |-> 1, int |-> -1, txs |-> EarlierDeposits]
InitStores == {FreshStore, FundedStore}
NoKey == <<>>
NoResponse == [req |-> 0, res |-> None]

(***************************************************************************)
(* The key bootstrap: main, lines 72-80, and db.rs.                        *)
(* Table keys holds rows (wallet_name, mnemonic).  The database is SQLite: *)
(* a transaction reads the rows committed when it first read, one          *)
(* transaction writes at a time, and a transaction whose read has gone     *)
(* stale is refused the write.                                             *)
(***************************************************************************)
WalletName == "primary"
\* The phrases the generator may come up with
Phrases == {"abandon", "zoo"}

NoDbTx == [read |-> FALSE, snap |-> <<>>, pending |-> <<>>, inserted |-> FALSE, pred |-> {}]

\* A lookup that never finds a row (for comparison with SelectMnemonic)
SelectNothing(rows) == NoKey

\* SELECT mnemonic FROM keys WHERE wallet_name = $1, fetch_optional: the first match
SelectMnemonic(rows) ==
    LET hits == {i \in 1..Len(rows) : rows[i].wallet_name = WalletName}
    IN  IF hits = {} THEN NoKey
        ELSE <<rows[CHOOSE i \in hits : \A k \in hits : i <= k].mnemonic>>

\* A database without isolation between transactions (for comparison with MayWrite)
MayWriteAlways(p) == TRUE

\* Whether the database lets transaction p write
MayWrite(p) == kWriter \subseteq {p} /\ btx[p].snap = keys

Ready == {p \in Procs : bpc[p] = "ready"}

InitBootVars ==
    /\ keys = <<>>
    /\ kWriter = {}
    /\ bpc = [p \in Procs |-> "idle"]
    /\ btx = [p \in Procs |-> NoDbTx]
    /\ mnemonic = [p \in Procs |-> NoKey]

(***************************************************************************)
(* The transaction list of home: lines 167-171, and TxDetails::new, lines  *)
(* 187-211.  A wallet transaction is given by the value of its inputs and  *)
(* outputs, those the wallet owns apart from the others.                   *)
(***************************************************************************)
\* Largest number of transactions in a list
MaxViewTxs == 3
Amounts == {0, 100, 5000, 9900, 10000}
NoWalletTx == [ownIn |-> 0, otherIn |-> 0, ownOut |-> 0, otherOut |-> 0]
\* Transactions have inputs, which are worth at least the outputs
WalletTxs ==
    {t \in [ownIn : Amounts, otherIn : Amounts, ownOut : Amounts, otherOut : Amounts] :
        /\ t.ownIn + t.otherIn > 0
        /\ t.ownIn + t.otherIn >= t.ownOut + t.otherOut}

\* wallet.sent_and_received(&tx), line 190: the value of the inputs and of the
\* outputs that are the wallet's
SentAndReceived(t) == [sent |-> t.ownIn, received |-> t.ownOut]

\* A fee of nothing (for comparison with CalculateFee)
CalculateFeeNone(t) == 0

\* wallet.calculate_fee(&tx).unwrap(), line 191: inputs less outputs
CalculateFee(t) == (t.ownIn + t.otherIn) - (t.ownOut + t.otherOut)

\* Amount - Amount: panics below zero
AmountSub(a, b) == IF a >= b THEN [ok |-> TRUE, val |-> a - b] ELSE [ok |-> FALSE, val |-> 0]

NoDetails == [res |-> None, sent |-> 0, received |-> 0, fee |-> 0]
DetailsPanic == [res |-> "Panic", sent |-> 0, received |-> 0, fee |-> 0]

\* TxDetails::new, lines 187-211, statement by statement
TxDetailsNew(t) ==
    LET sr == SentAndReceived(t)
        fee == CalculateFee(t)
    IN  IF sr.sent > sr.received
        THEN LET d1 == AmountSub(sr.sent, sr.received)
                 d2 == AmountSub(d1.val, fee)
             IN  IF d1.ok /\ d2.ok
                 THEN [res |-> "Ok", sent |-> d2.val, received |-> 0, fee |-> fee]
                 ELSE DetailsPanic
        ELSE LET sent == 0
                 d == AmountSub(sr.received, sent)
             IN  IF d.ok THEN [res |-> "Ok", sent |-> sent, received |-> d.val, fee |-> fee]
                 ELSE DetailsPanic

\* ChainPosition<ConfirmationBlockTime>: Confirmed at a height, or Unconfirmed and
\* last seen at a time
ChainPositions ==
    {[confirmed |-> TRUE, at |-> 100], [confirmed |-> TRUE, at |-> 200],
     [confirmed |-> FALSE, at |-> 1]}

\* The lists wallet.transactions() may yield; id is the place in that order
TxLists ==
    UNION {{[i \in 1..n |-> [id |-> i, pos |-> f[i]]] : f \in [1..n -> ChainPositions]} :
            n \in 0..MaxViewTxs}

\* A comparison that puts Unconfirmed first (for comparison with ChainPositionLeq)
ChainPositionLeqUnconfirmedFirst(a, b) ==
    IF a.confirmed = b.confirmed THEN a.at <= b.at ELSE b.confirmed

\* chain_position.cmp, line 171, as derived for the enum: Confirmed before
\* Unconfirmed, then by height, or by the time last seen
ChainPositionLeq(a, b) ==
    IF a.confirmed = b.confirmed THEN a.at <= b.at ELSE a.confirmed

RECURSIVE InsertSorted(_, _)
InsertSorted(x, l) ==
    IF l = <<>> THEN <<x>>
    ELSE IF ChainPositionLeq(l[1].pos, x.pos) THEN <<l[1]>> \o InsertSorted(x, Tail(l))
    ELSE <<x>> \o l

RECURSIVE SortBy(_)
\* txs.sort_by(...), line 171: a stable sort
SortBy(l) ==
    IF l = <<>> THEN <<>>
    ELSE InsertSorted(l[Len(l)], SortBy(SubSeq(l, 1, Len(l) - 1)))

InitViewVars ==
    /\ vpc = "idle"
    /\ walletTx = NoWalletTx
    /\ details = NoDetails
    /\ txList = <<>>
    /\ sortedList = <<>>

Init ==
    /\ pc = [r \in Reqs |-> "idle"]
    /\ form = [r \in Reqs |-> NoForm]
    /\ intent = [r \in Reqs |-> NoIntent]
    /\ sreq = [r \in Reqs |-> NoSync]
    /\ upd = [r \in Reqs |-> {}]
    /\ psbt = [r \in Reqs |-> NoTx]
    /\ nextAddress = [r \in Reqs |-> NoAddress]
    /\ response = NoResponse
    /\ db \in InitStores
    /\ wallet = Loaded(db)
    /\ chain = db.txs
    /\ wReaders = {}
    /\ wWriter = {}
    /\ sWriter = {}
    /\ log = <<>>
    /\ applied = {}
    /\ lastFlushOk = TRUE
    /\ InitBootVars
    /\ InitViewVars

\* Requests are numbered in the order they arrive
Arrives(r) == pc[r] = "idle" /\ (IF r = 1 THEN TRUE ELSE pc[r - 1] # "idle")

\* The handler of r returns res; what it held on its stack is dropped
Return(r, res) ==
    /\ pc' = [pc EXCEPT ![r] = "done"]
    /\ response' = [req |-> r, res |-> res]
    /\ form' = [form EXCEPT ![r] = NoForm]
    /\ intent' = [intent EXCEPT ![r] = NoIntent]
    /\ sreq' = [sreq EXCEPT ![r] = NoSync]
    /\ upd' = [upd EXCEPT ![r] = {}]
    /\ psbt' = [psbt EXCEPT ![r] = NoTx]
    /\ nextAddress' = [nextAddress EXCEPT ![r] = NoAddress]

Goto(r, label) == pc' = [pc EXCEPT ![r] = label]

(***************************************************************************)
(* home: GET /, lines 138-175.                                             *)
(***************************************************************************)
\* lines 142-147: the sync request is built under a read guard that is a temporary
\* of the statement, dropped where the statement ends
HomeSyncRequest(r) ==
    /\ Arrives(r)
    /\ CanRead(wWriter)
    /\ wReaders' = ReleaseRead(AcquireRead(wReaders, r), r)
    /\ sreq' = [sreq EXCEPT ![r] = SyncRequest(wallet)]
    /\ Goto(r, "h_sync")
    /\ UNCHANGED <<form, intent, upd, psbt, nextAddress, response>>
    /\ UNCHANGED <<wallet, db, chain, wWriter, sWriter>>
    /\ UNCHANGED <<ghostVars, bootVars, viewVars>>

\* line 148: client.sync(...).await?
HomeSync(r) ==
    /\ pc[r] = "h_sync"
    /\ \/ /\ upd' = [upd EXCEPT ![r] = SyncResult(sreq[r], chain)]
          /\ Goto(r, "h_wlock")
          /\ UNCHANGED <<form, intent, sreq, psbt, nextAddress, response>>
       \/ Return(r, "SyncErr")
    /\ UNCHANGED <<sharedVars, ghostVars, bootVars, viewVars>>

\* lines 153-156: write guard, apply_update(...)?, next_unused_address
HomeApply(r) ==
    /\ pc[r] = "h_wlock"
    /\ CanWrite(wReaders, wWriter)
    /\ \/ /\ wallet' = NextUnusedAddress(ApplyUpdate(wallet, upd[r]))
          /\ nextAddress' = [nextAddress EXCEPT ![r] = NextAddressIndex(ApplyUpdate(wallet, upd[r]))]
          /\ applied' = applied \cup upd[r]
          /\ wWriter' = {r}
          /\ Goto(r, "h_slock")
          /\ UNCHANGED <<form, intent, sreq, upd, psbt, response>>
       \/ /\ Return(r, "ApplyErr")
          /\ UNCHANGED <<wallet, applied, wWriter>>
    /\ UNCHANGED <<db, chain, wReaders, sWriter, log, lastFlushOk, bootVars, viewVars>>

\* line 158: state.store.write().await
HomeStoreLock(r) ==
    /\ pc[r] = "h_slock"
    /\ sWriter = {}
    /\ sWriter' = {r}
    /\ Goto(r, "h_persist")
    /\ UNCHANGED <<form, intent, sreq, upd, psbt, nextAddress, response>>
    /\ UNCHANGED <<wallet, db, chain, wReaders, wWriter, ghostVars, bootVars, viewVars>>

\* lines 159-161: persist_async(...).await?, then both guards are dropped
HomePersist(r) ==
    /\ pc[r] = "h_persist"
    /\ \/ /\ db' = PersistTo(db, wallet)
          /\ wallet' = TakeStaged(wallet)
          /\ lastFlushOk' = TRUE
          /\ Goto(r, "h_rlock")
          /\ UNCHANGED <<form, intent, sreq, upd, psbt, nextAddress, response>>
       \/ /\ Return(r, "PersistErr")
          /\ lastFlushOk' = FALSE
          /\ UNCHANGED <<wallet, db>>
    /\ wWriter' = {}
    /\ sWriter' = {}
    /\ UNCHANGED <<chain, wReaders, log, applied, bootVars, viewVars>>

\* line 165: state.wallet.read().await
HomeViewLock(r) ==
    /\ pc[r] = "h_rlock"
    /\ CanRead(wWriter)
    /\ wReaders' = AcquireRead(wReaders, r)
    /\ Goto(r, "h_render")
    /\ UNCHANGED <<form, intent, sreq, upd, psbt, nextAddress, response>>
    /\ UNCHANGED <<wallet, db, chain, wWriter, sWriter, ghostVars, bootVars, viewVars>>

\* lines 166-174: balance, transaction list, page; the read guard is dropped on return
HomeReturn(r) ==
    /\ pc[r] = "h_render"
    /\ wReaders' = ReleaseRead(wReaders, r)
    /\ Return(r, "Page")
    /\ UNCHANGED <<wallet, db, chain, wWriter, sWriter, ghostVars, bootVars, viewVars>>

(***************************************************************************)
(* spend: POST /, lines 221-263.                                           *)
(***************************************************************************)
\* The form of the request, as axum hands it to the handler
SpendStart(r, f) ==
    /\ Arrives(r)
    /\ form' = [form EXCEPT ![r] = f]
    /\ Goto(r, "s_validate")
    /\ UNCHANGED <<intent, sreq, upd, psbt, nextAddress, response>>
    /\ UNCHANGED <<sharedVars, ghostVars, bootVars, viewVars>>

\* lines 230-236
SpendValidate(r) ==
    /\ pc[r] = "s_validate"
    /\ LET v == Validate(form[r])
       IN  \/ /\ v.res = "Ok"
              /\ intent' = [intent EXCEPT ![r] = v.intent]
              /\ form' = [form EXCEPT ![r] = NoForm]
              /\ Goto(r, "s_wlock")
              /\ UNCHANGED <<sreq, upd, psbt, nextAddress, response>>
           \/ /\ v.res # "Ok"
              /\ Return(r, v.res)
    /\ UNCHANGED <<sharedVars, ghostVars, bootVars, viewVars>>

\* The outcomes of wallet.sign(&mut psbt, SignOptions::default()), line 247
SignOutcomes == {"finalized", "nonfinal", "error"}

\* The entry a spend leaves in the log when it has taken its change address
LogEntry(w, tx, st) ==
    [idx |-> ChangeIndex(w), adv |-> ChangeIndex(w) > w.int, ins |-> tx.ins, st |-> st]

\* The last entry is the spend that holds the write guard
Settle(l, st) == [l EXCEPT ![Len(l)].st = st]

\* lines 238-249 and the else branch of lines 259-262: write guard, build, sign.
\* Every return before the broadcast drops the guard.
SpendBuildSign(r) ==
    /\ pc[r] = "s_wlock"
    /\ CanWrite(wReaders, wWriter)
    /\ \E b \in BuildTx(wallet, intent[r]) :
        /\ wallet' = b.w
        /\ \/ /\ ~b.ok
              /\ log' = IF b.w = wallet THEN log
                        ELSE Append(log, LogEntry(wallet, b.tx, "nofunds"))
              /\ Return(r, "BuildErr")
              /\ UNCHANGED wWriter
           \/ /\ b.ok
              /\ \E sig \in SignOutcomes :
                  \/ /\ sig = "finalized"
                     /\ log' = Append(log, LogEntry(wallet, b.tx, "signed"))
                     /\ wWriter' = {r}
                     /\ psbt' = [psbt EXCEPT ![r] = b.tx]
                     /\ Goto(r, "s_bcast")
                     /\ UNCHANGED <<form, intent, sreq, upd, nextAddress, response>>
                  \/ /\ sig = "nonfinal"
                     /\ log' = Append(log, LogEntry(wallet, b.tx, "unsigned"))
                     /\ Return(r, "FinalizeErr")
                     /\ UNCHANGED wWriter
                  \/ /\ sig = "error"
                     /\ log' = Append(log, LogEntry(wallet, b.tx, "signerr"))
                     /\ Return(r, "SignErr")
                     /\ UNCHANGED wWriter
    /\ UNCHANGED <<db, chain, wReaders, sWriter, applied, lastFlushOk, bootVars, viewVars>>

\* A spend that goes on to persist whatever the server answered (for comparison
\* with SpendBroadcast)
SpendBroadcastUnchecked(r) ==
    /\ pc[r] = "s_bcast"
    /\ \/ /\ Accepts(chain, psbt[r])
          /\ chain' = chain \cup {psbt[r]}
          /\ log' = Settle(log, "sent")
       \/ /\ log' = Settle(log, "unsent")
          /\ UNCHANGED chain
    /\ Goto(r, "s_slock")
    /\ psbt' = [psbt EXCEPT ![r] = NoTx]
    /\ UNCHANGED <<form, intent, sreq, upd, nextAddress, response, wWriter>>
    /\ UNCHANGED <<wallet, db, wReaders, sWriter, applied, lastFlushOk, bootVars, viewVars>>

\* lines 253-254: extract_tx, client.broadcast(tx).await?
\* (the fee rates of Forms are far below the rate extract_tx refuses as absurd)
SpendBroadcast(r) ==
    /\ pc[r] = "s_bcast"
    /\ \/ /\ Accepts(chain, psbt[r])
          /\ chain' = chain \cup {psbt[r]}
          /\ log' = Settle(log, "sent")
          /\ Goto(r, "s_slock")
          /\ psbt' = [psbt EXCEPT ![r] = NoTx]
          /\ UNCHANGED <<form, intent, sreq, upd, nextAddress, response, wWriter>>
       \/ /\ Return(r, "BroadcastErr")
          /\ log' = Settle(log, "unsent")
          /\ wWriter' = {}
          /\ UNCHANGED chain
    /\ UNCHANGED <<wallet, db, wReaders, sWriter, applied, lastFlushOk, bootVars, viewVars>>

\* line 256: state.store.write().await
SpendStoreLock(r) ==
    /\ pc[r] = "s_slock"
    /\ sWriter = {}
    /\ sWriter' = {r}
    /\ Goto(r, "s_persist")
    /\ UNCHANGED <<form, intent, sreq, upd, psbt, nextAddress, response>>
    /\ UNCHANGED <<wallet, db, chain, wReaders, wWriter, ghostVars, bootVars, viewVars>>

\* A spend that keeps the guard of the store when the flush fails (for comparison
\* with SpendPersist)
SpendPersistKeepsGuard(r) ==
    /\ pc[r] = "s_persist"
    /\ \/ /\ db' = PersistTo(db, wallet)
          /\ wallet' = TakeStaged(wallet)
          /\ lastFlushOk' = TRUE
          /\ Return(r, "Redirect")
          /\ sWriter' = {}
       \/ /\ Return(r, "PersistErr")
          /\ lastFlushOk' = FALSE
          /\ UNCHANGED <<wallet, db, sWriter>>
    /\ wWriter' = {}
    /\ UNCHANGED <<chain, wReaders, log, applied, bootVars, viewVars>>

\* lines 257-258: persist_async(...).await?, Redirect; both guards are dropped
SpendPersist(r) ==
    /\ pc[r] = "s_persist"
    /\ \/ /\ db' = PersistTo(db, wallet)
          /\ wallet' = TakeStaged(wallet)
          /\ lastFlushOk' = TRUE
          /\ Return(r, "Redirect")
       \/ /\ Return(r, "PersistErr")
          /\ lastFlushOk' = FALSE
          /\ UNCHANGED <<wallet, db>>
    /\ wWriter' = {}
    /\ sWriter' = {}
    /\ UNCHANGED <<chain, wReaders, log, applied, bootVars, viewVars>>

(***************************************************************************)
(* The outside world: somebody pays to the address the wallet revealed last.*)
(***************************************************************************)
Deposit ==
    /\ NDeposits < MaxDeposits
    /\ wallet.ext >= 0
    /\ chain' = chain \cup {DepTx(NDeposits + 1, wallet.ext)}
    /\ UNCHANGED <<reqVars, wallet, db, wReaders, wWriter, sWriter, ghostVars, bootVars, viewVars>>

Next ==
    \/ \E r \in Reqs : HomeSyncRequest(r)
    \/ \E r \in Reqs : HomeSync(r)
    \/ \E r \in Reqs : HomeApply(r)
    \/ \E r \in Reqs : HomeStoreLock(r)
    \/ \E r \in Reqs : HomePersist(r)
    \/ \E r \in Reqs : HomeViewLock(r)
    \/ \E r \in Reqs : HomeReturn(r)
    \/ \E r \in Reqs, f \in Forms : SpendStart(r, f)
    \/ \E r \in Reqs : SpendValidate(r)
    \/ \E r \in Reqs : SpendBuildSign(r)
    \/ \E r \in Reqs : SpendBroadcast(r)
    \/ \E r \in Reqs : SpendStoreLock(r)
    \/ \E r \in Reqs : SpendPersist(r)
    \/ Deposit

Spec == Init /\ [][Next]_vars

\* POST requests alone, with every form of AllForms
NextPost ==
    \/ \E r \in Reqs, f \in AllForms : SpendStart(r, f)
    \/ \E r \in Reqs : SpendValidate(r)
    \/ \E r \in Reqs : SpendBuildSign(r)
    \/ \E r \in Reqs : SpendBroadcast(r)
    \/ \E r \in Reqs : SpendStoreLock(r)
    \/ \E r \in Reqs : SpendPersist(r)

SpecPost == Init /\ [][NextPost]_vars

(***************************************************************************)
(* main, lines 73-80, run by process p.                                    *)
(***************************************************************************)
\* Processes are numbered in the order they start
Starts(p) == bpc[p] = "idle" /\ (IF p = 1 THEN TRUE ELSE bpc[p - 1] # "idle")

\* A failure path that commits what the transaction wrote (for comparison with Rollback)
RollbackCommits(p) ==
    /\ bpc' = [bpc EXCEPT ![p] = "failed"]
    /\ btx' = [btx EXCEPT ![p] = [NoDbTx EXCEPT !.inserted = btx[p].inserted,
                                                !.pred = btx[p].pred]]
    /\ mnemonic' = [mnemonic EXCEPT ![p] = NoKey]
    /\ kWriter' = kWriter \ {p}
    /\ keys' = keys \o btx[p].pending

\* An Err leaves main through `?`: the transaction is dropped, which rolls it back
Rollback(p) ==
    /\ bpc' = [bpc EXCEPT ![p] = "failed"]
    /\ btx' = [btx EXCEPT ![p] = [NoDbTx EXCEPT !.inserted = btx[p].inserted,
                                                !.pred = btx[p].pred]]
    /\ mnemonic' = [mnemonic EXCEPT ![p] = NoKey]
    /\ kWriter' = kWriter \ {p}
    /\ UNCHANGED keys

\* line 73: pool.begin().await?
Begin(p) ==
    /\ Starts(p)
    /\ \/ /\ bpc' = [bpc EXCEPT ![p] = "begun"]
          /\ btx' = [btx EXCEPT ![p] = [NoDbTx EXCEPT !.pred = Ready]]
          /\ UNCHANGED <<keys, kWriter, mnemonic>>
       \/ Rollback(p)
    /\ UNCHANGED <<reqVars, sharedVars, ghostVars, viewVars>>

\* line 74 and db.rs lines 35-45: load_secret_key_mnemonic(&mut tx).await?
LoadSecretKeyMnemonic(p) ==
    /\ bpc[p] = "begun"
    /\ \/ /\ btx' = [btx EXCEPT ![p].read = TRUE, ![p].snap = keys]
          /\ mnemonic' = [mnemonic EXCEPT ![p] = SelectMnemonic(keys)]
          /\ bpc' = [bpc EXCEPT ![p] = IF SelectMnemonic(keys) = NoKey THEN "absent" ELSE "loaded"]
          /\ UNCHANGED <<keys, kWriter>>
       \/ Rollback(p)
    /\ UNCHANGED <<reqVars, sharedVars, ghostVars, viewVars>>

\* lines 75-78 and db.rs lines 12-32: store_secret_key_mnemonic(&mut tx).await?
StoreSecretKeyMnemonic(p) ==
    /\ bpc[p] = "absent"
    /\ \/ /\ MayWrite(p)
          /\ \E ph \in Phrases :
              /\ btx' = [btx EXCEPT ![p].pending =
                             Append(@, [wallet_name |-> WalletName, mnemonic |-> ph]),
                                    ![p].inserted = TRUE]
              /\ mnemonic' = [mnemonic EXCEPT ![p] = <<ph>>]
          /\ kWriter' = {p}
          /\ bpc' = [bpc EXCEPT ![p] = "loaded"]
          /\ UNCHANGED keys
       \/ Rollback(p)
    /\ UNCHANGED <<reqVars, sharedVars, ghostVars, viewVars>>

\* lines 79-80: Mnemonic::parse_in(...)?, tx.commit().await?
Commit(p) ==
    /\ bpc[p] = "loaded"
    /\ \/ /\ keys' = keys \o btx[p].pending
          /\ kWriter' = kWriter \ {p}
          /\ btx' = [btx EXCEPT ![p].pending = <<>>, ![p].snap = <<>>, ![p].read = FALSE]
          /\ bpc' = [bpc EXCEPT ![p] = "ready"]
          /\ UNCHANGED mnemonic
       \/ Rollback(p)
    /\ UNCHANGED <<reqVars, sharedVars, ghostVars, viewVars>>

NextBoot ==
    \/ \E p \in Procs : Begin(p)
    \/ \E p \in Procs : LoadSecretKeyMnemonic(p)
    \/ \E p \in Procs : StoreSecretKeyMnemonic(p)
    \/ \E p \in Procs : Commit(p)

\* The bootstrap runs before the wallet is loaded, on a store with no wallet data yet
InitBoot == Init /\ db = FreshStore

SpecBoot == InitBoot /\ [][NextBoot]_vars

(***************************************************************************)
(* home, lines 167-171, on a wallet with the transactions l, of which t is *)
(* one.                                                                    *)
(***************************************************************************)
\* line 167-168: wallet.transactions()
Transactions(t, l) ==
    /\ vpc = "idle"
    /\ vpc' = "map"
    /\ walletTx' = t
    /\ txList' = l
    /\ UNCHANGED <<details, sortedList>>
    /\ UNCHANGED <<reqVars, sharedVars, ghostVars, bootVars>>

\* line 169: .map(|tx| TxDetails::new(tx, &wallet)); a panic ends the handler
MapTxDetails ==
    /\ vpc = "map"
    /\ details' = TxDetailsNew(walletTx)
    /\ vpc' = IF TxDetailsNew(walletTx).res = "Ok" THEN "sort" ELSE "panicked"
    /\ UNCHANGED <<walletTx, txList, sortedList>>
    /\ UNCHANGED <<reqVars, sharedVars, ghostVars, bootVars>>

\* line 171: txs.sort_by(...)
SortTxs ==
    /\ vpc = "sort"
    /\ sortedList' = SortBy(txList)
    /\ vpc' = "sorted"
    /\ UNCHANGED <<walletTx, details, txList>>
    /\ UNCHANGED <<reqVars, sharedVars, ghostVars, bootVars>>

\* a second GET / on the same wallet: the same transactions in the same order
SortTxsAgain ==
    /\ vpc = "sorted"
    /\ sortedList' = SortBy(txList)
    /\ vpc' = "again"
    /\ UNCHANGED <<walletTx, details, txList>>
    /\ UNCHANGED <<reqVars, sharedVars, ghostVars, bootVars>>

NextView ==
    \/ vpc = "idle" /\ \E t \in WalletTxs, l \in TxLists : Transactions(t, l)
    \/ MapTxDetails
    \/ SortTxs
    \/ SortTxsAgain

SpecView == InitBoot /\ [][NextView]_vars

(***************************************************************************)
(* Properties.                                                             *)
(***************************************************************************)
Finished == \A r \in Reqs : pc[r] \in {"idle", "done"}
Holds(r) == r \in wReaders \/ wWriter = {r} \/ sWriter = {r}
InSpend(r) == pc[r] \in {"s_bcast", "s_slock", "s_persist"}
LogIdx == 1..Len(log)

\* C1: when signing reports the transaction non-finalized, no broadcast is made, the
\* request ends with an error, and the wallet in memory (change index and staged
\* changes included) is what it was before.  The code leaves the change address
\* revealed, marked used and staged.
C1_NonFinalLeavesWallet ==
    [][\A r \in Reqs :
        (pc[r] = "s_wlock" /\ response' = [req |-> r, res |-> "FinalizeErr"])
            => (pc'[r] = "done" /\ chain' = chain /\ wallet' = wallet)]_vars

\* C2: the spends that took a change address took strictly increasing indices, in
\* the order they built; so two successful spends use increasing indices and no
\* index serves two spends, whatever became of the earlier spend.
C2_ChangeIndexMonotone ==
    \A i, j \in LogIdx : i < j => log[i].idx < log[j].idx

C2_TwoSent ==
    \E i, j \in LogIdx : i < j /\ log[i].st = "sent" /\ log[j].st = "sent"

\* C3: a spend holds the write guard from build to persist, no two spends are in
\* there together, and no two spends select the same change index or the same
\* input set (stated here for a spend that follows one that was broadcast).
C3_SpendsExclusive ==
    /\ \A r \in Reqs : InSpend(r) => wWriter = {r}
    /\ \A r1, r2 \in Reqs : (InSpend(r1) /\ InSpend(r2)) => r1 = r2
    /\ \A i, j \in LogIdx :
        (i < j /\ log[j].st # "nofunds") =>
            /\ log[i].idx # log[j].idx
            /\ log[i].st = "sent" => log[i].ins # log[j].ins

C5_FailedSpendNotStored ==
    \A i \in LogIdx :
        (log[i].st = "unsent" /\ \A j \in LogIdx : log[j].st # "sent")
            => db.int < log[i].idx

Malformed(f) ==
    \/ f.amount \in {<<"a","b","c">>, <<>>, <<"-","5">>}
    \/ f.address = <<"x","y","z">>
    \/ f.fee_rate \in
        {<<"x">>,
         <<"1","8","4","4","6","7","4","4","0","7","3","7","0","9","5","5","1","6","1","6">>}

\* C7: a spend whose amount, address or fee rate does not parse is answered with an
\* input error while it holds no guard, and wallet, store and server stay as they are.
C7_MalformedRejected ==
    [][\A r \in Reqs :
        (pc[r] = "s_validate" /\ Malformed(form[r]) /\ pc'[r] # pc[r])
            => /\ pc'[r] = "done"
               /\ response' = [req |-> r, res |-> "InputErr"]
               /\ ~Holds(r) /\ ~Holds(r)'
               /\ UNCHANGED <<sharedVars, ghostVars>>]_vars

C7_InputErrAnswered ==
    \E r \in Reqs : pc[r] = "done" /\ response = [req |-> r, res |-> "InputErr"]

\* Forms with a fee rate of zero or beyond what a rate can hold, or with a note
\* longer than the 80 bytes a data output may carry
Unacceptable(f) ==
    \/ f.fee_rate \in
        {<<"0">>,
         <<"7","3","7","8","6","9","7","6","2","9","4","8","3","8","2","0","7">>}
    \/ f.note > 80

\* C8: validation answers every spend with a zero or too large fee rate or an
\* oversized note with an input error: none goes on to build, none aborts the handler.
C8_UnacceptableRejected ==
    [][\A r \in Reqs :
        (pc[r] = "s_validate" /\ Unacceptable(form[r]) /\ pc'[r] # pc[r])
            => /\ pc'[r] = "done"
               /\ response' = [req |-> r, res |-> "InputErr"]]_vars

\* C9: a bootstrap that begins after another has finished returns the phrase of
\* the first, inserts nothing, and leaves one row for the wallet name.
C9_SecondRunIdempotent ==
    \A p, q \in Procs :
        (p \in btx[q].pred /\ bpc[q] \notin {"idle", "begun", "failed"})
            => /\ mnemonic[q] = mnemonic[p]
               /\ ~btx[q].inserted
               /\ Len(keys) = 1
               /\ keys[1] = [wallet_name |-> WalletName, mnemonic |-> mnemonic[q][1]]

C9_SecondRunReady ==
    \E p, q \in Procs : p \in btx[q].pred /\ bpc[q] = "ready"

\* C10: whatever the interleaving of the bootstraps, at most one row for the
\* wallet name is ever committed and all that succeed hold the same phrase.
C10_OneSeedRecord ==
    /\ Cardinality({i \in 1..Len(keys) : keys[i].wallet_name = WalletName}) <= 1
    /\ \A p, q \in Ready : mnemonic[p] = mnemonic[q]

\* two bootstraps that overlapped have both succeeded
C10_OverlappingReady ==
    \E p, q \in Ready : p # q /\ p \notin btx[q].pred /\ q \notin btx[p].pred

\* C11: a bootstrap that fails after it began (at the select, the insert, the
\* parse or the commit) ends in failure for good and leaves the table as it was:
\* rows are added only by the commit of a bootstrap that succeeds.
C11_FailureLeavesNoRecord ==
    [][/\ \A p \in Procs :
            /\ (bpc[p] # "failed" /\ bpc'[p] = "failed")
                => (keys' = keys /\ btx'[p].pending = <<>> /\ p \notin kWriter')
            /\ bpc[p] = "failed" => bpc'[p] = "failed"
       /\ keys' # keys =>
            \E q \in Procs : /\ bpc[q] = "loaded" /\ bpc'[q] = "ready"
                             /\ keys' = keys \o btx[q].pending]_vars

\* a bootstrap has failed after its insert
C11_FailedAfterInsert ==
    \E p \in Procs : bpc[p] = "failed" /\ btx[p].inserted /\ keys = <<>>

Projected == details # NoDetails
SelfTransfer == [ownIn |-> 10000, otherIn |-> 0, ownOut |-> 9900, otherOut |-> 0]
Unconfirmed == [confirmed |-> FALSE, at |-> 1]
ConfirmedAt(h) == [confirmed |-> TRUE, at |-> h]
Positions(l) == [i \in 1..Len(l) |-> l[i].pos]

\* C12: a transaction whose owned inputs are worth no more than its owned outputs
\* is shown with sent = 0 and received = owned outputs less owned inputs, also when
\* the owned inputs are worth something.  The code sets sent to zero before it
\* subtracts it, and shows the owned outputs whole.
C12_NetReceive ==
    (Projected /\ walletTx.ownIn <= walletTx.ownOut)
        => /\ details.res = "Ok"
           /\ details.sent = 0
           /\ details.received = walletTx.ownOut - walletTx.ownIn

\* C13: a transaction whose owned inputs are worth more than its owned outputs is
\* shown with received = 0 and sent = owned inputs less owned outputs less fee.
\* With inputs that are not the wallet's the fee can exceed the difference, and
\* the subtraction panics.
C13_NetSpend ==
    (Projected /\ walletTx.ownIn > walletTx.ownOut)
        => /\ details.res = "Ok"
           /\ details.received = 0
           /\ details.sent = walletTx.ownIn - walletTx.ownOut - CalculateFee(walletTx)

\* C14 as stated: a transfer of the wallet to itself is shown with sent = fee and
\* received = 0.
C14_SelfTransferSendsFee ==
    (Projected /\ walletTx.otherIn = 0 /\ walletTx.otherOut = 0
               /\ walletTx.ownIn > walletTx.ownOut)
        => /\ details.res = "Ok"
           /\ details.sent = walletTx.ownIn - walletTx.ownOut
           /\ details.received = 0

\* C14: a transfer of the wallet to itself that pays a fee is shown with sent = 0
\* and received = 0, the fee apart: inputs 10,000, output 9,900 give fee 100, sent 0.
C14_SelfTransferSendsNothing ==
    (Projected /\ walletTx.otherIn = 0 /\ walletTx.otherOut = 0
               /\ walletTx.ownIn > walletTx.ownOut)
        => /\ details.res = "Ok"
           /\ details.sent = 0
           /\ details.received = 0
           /\ details.fee = walletTx.ownIn - walletTx.ownOut

C14_SelfTransferProjected ==
    Projected /\ walletTx = SelfTransfer /\ details.fee = 100

SpendRank(l) ==
    CASE l = "s_validate" -> 1 [] l = "s_wlock" -> 2 [] l = "s_bcast" -> 3
      [] l = "s_slock" -> 4 [] l = "s_persist" -> 5 [] l = "done" -> 6

\* C16: a spend goes through validate, build and sign, broadcast, persist in that
\* order: it broadcasts only what signing finalized, goes on to the store only
\* when the server took the transaction, answers with success only when the
\* flush succeeded, and never steps back to a step it has made.
C16_SpendStepOrder ==
    [][\A r \in Reqs : pc'[r] # pc[r] =>
        /\ pc'[r] = "s_wlock" => (pc[r] = "s_validate" /\ Validate(form[r]).res = "Ok")
        /\ pc'[r] = "s_bcast" =>
            (pc[r] = "s_wlock" /\ log'[Len(log')].st = "signed" /\ psbt'[r] # NoTx)
        /\ pc'[r] = "s_slock" =>
            (pc[r] = "s_bcast" /\ psbt[r] \in chain' /\ log'[Len(log')].st = "sent")
        /\ pc'[r] = "s_persist" => pc[r] = "s_slock"
        /\ (pc'[r] = "done" /\ response'.res = "Redirect") =>
            (pc[r] = "s_persist" /\ lastFlushOk' /\ db' = PersistTo(db, wallet))
        /\ pc[r] \in {"s_validate", "s_wlock", "s_bcast", "s_slock", "s_persist"} =>
            SpendRank(pc'[r]) > SpendRank(pc[r])
        /\ pc[r] # "done"]_vars

C16_SpendSucceeded ==
    \E r \in Reqs : pc[r] = "done" /\ response = [req |-> r, res |-> "Redirect"]

\* C17: when the build fails the request is answered with a build error, the write
\* guard is free again, nothing is broadcast or stored, and the wallet in memory
\* is what it was.  On insufficient funds the code leaves the change address
\* marked used, and revealed and staged when it was new.
C17_BuildFailureLeavesWallet ==
    [][\A r \in Reqs :
        (pc[r] = "s_wlock" /\ response' = [req |-> r, res |-> "BuildErr"])
            => /\ pc'[r] = "done"
               /\ wWriter' = {}
               /\ chain' = chain /\ db' = db
               /\ wallet' = wallet]_vars

\* C18: whenever no request holds the write guard of the wallet, the wallet in
\* memory has nothing unpersisted: its indices and transactions are those of the
\* store.  (Stated here for the runs in which no flush was left failed and no build
\* ran out of funds.)  A spend that fails to sign or to broadcast returns with its
\* change index staged and unflushed.
C18_FlushedWhenUnlocked ==
    (wWriter = {} /\ lastFlushOk /\ \A i \in LogIdx : log[i].st # "nofunds")
        => /\ wallet.stage = NoStage
           /\ wallet.ext = db.ext /\ wallet.int = db.int /\ wallet.txs = db.txs

Running(r) == pc[r] \notin {"idle", "done"}
\* A request that waits for a guard another request holds
Blocked(r) ==
    \/ pc[r] \in {"h_wlock", "s_wlock"} /\ ~CanWrite(wReaders, wWriter)
    \/ pc[r] \in {"h_slock", "s_slock"} /\ sWriter # {}
    \/ pc[r] = "h_rlock" /\ ~CanRead(wWriter)

\* C19: the guard of the store is held only under the write guard of the wallet,
\* and by no request that still waits for the wallet; a request that has returned
\* holds no guard; and while requests are running one of them waits for no guard,
\* so no interleaving ends in a deadlock.
C19_LockOrderNoDeadlock ==
    /\ \A r \in Reqs :
        /\ sWriter = {r} => wWriter = {r}
        /\ pc[r] \in {"idle", "h_sync", "h_wlock", "h_rlock", "s_validate", "s_wlock"}
                => ~Holds(r)
        /\ pc[r] = "done" => ~Holds(r)
    /\ wWriter # {} => wReaders = {}
    /\ (\E r \in Reqs : Running(r)) => \E r \in Reqs : Running(r) /\ ~Blocked(r)

\* a request waits for the wallet while another holds both guards
C19_WaitsForBothGuards ==
    \E r1, r2 \in Reqs :
        /\ wWriter = {r1} /\ sWriter = {r1}
        /\ pc[r2] \in {"h_wlock", "s_wlock", "h_rlock"}

\* C20: the address a GET / hands out as unused has no transaction in the list the
\* same response shows.  The list is made under a read guard taken after the write
\* guard was dropped; an update applied by another request in between can bring a
\* payment to that address.
C20_AddressUnusedInView ==
    \A r \in Reqs : pc[r] = "h_render" => nextAddress[r] \notin UsedExternal(wallet)

====
